---- MODULE Spec2Model ----
(***************************************************************************)
(* Document indexing and search over Elasticsearch                         *)
(* (src/src/elasticsearch_utils.py, src/src/main.py,                        *)
(* src/src/file_processors.py, src/src/spark_utils.py).                     *)
(*                                                                         *)
(* Python values are modelled as follows.  A dict is a function whose      *)
(* domain is its set of keys, so that "k in d" is  k \in DOMAIN d  and the  *)
(* empty dict {} is the function with the empty domain.  A list is a       *)
(* sequence.  An Optional value is None (the empty tuple) or Some(v) (the   *)
(* one-element tuple), so that None, 0 and "" stay three different values.  *)
(***************************************************************************)
EXTENDS Integers, Sequences, FiniteSets, TLC

VARIABLES
    indexExists,   \* engine: the index ES_CONFIG['index'] exists
    indexMapping,  \* engine: the mapping of the index, None while it is missing
    indexDocs,     \* engine: the stored documents, a set of [id, source]
    autoIds,       \* engine: how many ids it has generated so far
    directory,     \* the files under APP_CONFIG['input_directory'], in walk order
    request,       \* the arguments of the search call
    response,      \* hits.hits of the response the engine gives to es.search
    fault,         \* the engine call that fails with a transport error
    pc,            \* "ready" before the search call, "checked" between its
                   \* existence check and its search call, "done" after it
    op,            \* the operation that ran
    calls,         \* the engine calls the operation made, in order
    sent,          \* the bodies the operation passed to es.search, in order
    writes,        \* the write items the operation sent to the engine, in order
    results,       \* the list the query layer returned
    raised,        \* the query layer raised to its caller
    exitCode,      \* the exit code of the command
    spark,         \* the Spark session: "none", "running", "stopped"
    indexed,       \* the (success, failed) pair index_documents returned
    processed,     \* the records process_directory returned to the operation
    bulkFailed,    \* the positions of the bulk actions the engine did not store
    runs,          \* the ingest operations run so far
    ensuring       \* per concurrent ingestion: its position in index_documents,
                   \* the status of its create call, whether it raised

vars == <<indexExists, indexMapping, indexDocs, autoIds, directory, request,
          response, fault, pc, op, calls, sent, writes, results, raised, exitCode,
          spark, indexed, processed, bulkFailed, runs, ensuring>>

(***************************************************************************)
(* Bounds of the model.                                                    *)
(***************************************************************************)
\* the longest hit list the engine returns
MaxHits == 2
\* the number of ingest operations run one after the other
MaxRuns == 2
\* the number of files in the input directory
MaxFiles == 2
\* the number of ingestions that run at once
MaxProcs == 2

(***************************************************************************)
(* Python values.                                                          *)
(***************************************************************************)
None == <<>>
Some(v) == <<v>>
EmptyDict == <<>>
EmptyList == <<>>

\* bool(x) of an Optional[str]: None and "" are false
Truthy(x) == x # None /\ x[1] # ""

\* d[k] = v on a dict
DictSet(d, k, v) == (k :> v) @@ d

\* d.get(k, default)
DictGet(d, k, default) == IF k \in DOMAIN d THEN d[k] ELSE default

(***************************************************************************)
(* The query builder of advanced_search.                                   *)
(***************************************************************************)
multi_match(query_text) ==
    [multi_match |-> [query |-> query_text,
                      fields |-> <<"content", "file_name">>,
                      type |-> "best_fields",
                      fuzziness |-> "AUTO"]]

\* query_parts with the text tested against None: "" gives a text clause
query_parts_not_none(query_text) ==
    IF query_text # None THEN <<multi_match(query_text[1])>> ELSE EmptyList

query_parts(query_text) ==
    IF Truthy(query_text) THEN <<multi_match(query_text[1])>> ELSE EmptyList

\* size_filter with the bounds tested by truth value: a bound of 0 is dropped
size_filter_truthy(min_size, max_size) ==
    [k \in (IF min_size # None /\ min_size[1] # 0 THEN {"gte"} ELSE {})
             \cup (IF max_size # None /\ max_size[1] # 0 THEN {"lte"} ELSE {})
        |-> IF k = "gte" THEN min_size[1] ELSE max_size[1]]

\* size_filter with exclusive bounds
size_filter_exclusive(min_size, max_size) ==
    [k \in (IF min_size # None THEN {"gt"} ELSE {})
             \cup (IF max_size # None THEN {"lt"} ELSE {})
        |-> IF k = "gt" THEN min_size[1] ELSE max_size[1]]

size_filter(min_size, max_size) ==
    [k \in (IF min_size # None THEN {"gte"} ELSE {})
             \cup (IF max_size # None THEN {"lte"} ELSE {})
        |-> IF k = "gte" THEN min_size[1] ELSE max_size[1]]

filters(file_type, min_size, max_size) ==
    (IF Truthy(file_type)
        THEN <<[term |-> [file_type |-> file_type[1]]]>>
        ELSE EmptyList)
    \o (IF size_filter(min_size, max_size) # EmptyDict
           THEN <<[range |-> [file_size |-> size_filter(min_size, max_size)]]>>
           ELSE EmptyList)

\* final_query without its last branch: an empty bool instead of match_all
final_query_no_match_all(parts, fs) ==
    IF parts # EmptyList /\ fs # EmptyList
        THEN [bool |-> [must |-> parts, filter |-> fs]]
    ELSE IF fs # EmptyList
        THEN [bool |-> [filter |-> fs]]
    ELSE [bool |-> [must |-> parts]]

\* final_query with the filters appended to the must list
final_query_single_must(parts, fs) ==
    IF parts # EmptyList /\ fs # EmptyList
        THEN [bool |-> [must |-> parts \o fs]]
    ELSE IF parts # EmptyList
        THEN [bool |-> [must |-> parts]]
    ELSE IF fs # EmptyList
        THEN [bool |-> [filter |-> fs]]
    ELSE [match_all |-> EmptyDict]

\* final_query that always writes both lists of the bool query
final_query_both_keys(parts, fs) ==
    IF parts # EmptyList \/ fs # EmptyList
        THEN [bool |-> [must |-> parts, filter |-> fs]]
    ELSE [match_all |-> EmptyDict]

final_query(parts, fs) ==
    IF parts # EmptyList /\ fs # EmptyList
        THEN [bool |-> [must |-> parts, filter |-> fs]]
    ELSE IF parts # EmptyList
        THEN [bool |-> [must |-> parts]]
    ELSE IF fs # EmptyList
        THEN [bool |-> [filter |-> fs]]
    ELSE [match_all |-> EmptyDict]

\* highlight attached whatever the query text is
highlight_always(query_text) ==
    [highlight |-> [fields |-> [content |-> EmptyDict]]]

highlight(query_text) ==
    IF Truthy(query_text)
        THEN [highlight |-> [fields |-> [content |-> EmptyDict]]]
        ELSE EmptyDict

\* sort_field without the file_name branch: the tokenized field itself
sort_field_raw(sort_by) == IF sort_by = "score" THEN "_score" ELSE sort_by

sort_field(sort_by) ==
    IF sort_by = "score" THEN "_score"
    ELSE IF sort_by = "file_name" THEN "file_name.keyword"
    ELSE sort_by

\* advanced_query with the default size in place of the requested one
advanced_query_default_size(req) ==
    [query |-> final_query(query_parts(req.query_text),
                           filters(req.file_type, req.min_size, req.max_size)),
     sort |-> <<(sort_field(req.sort_by) :> [order |-> req.sort_order])>>,
     size |-> 10]
    @@ highlight(req.query_text)

\* the body advanced_search passes to es.search
advanced_query(req) ==
    [query |-> final_query(query_parts(req.query_text),
                           filters(req.file_type, req.min_size, req.max_size)),
     sort |-> <<(sort_field(req.sort_by) :> [order |-> req.sort_order])>>,
     size |-> req.size]
    @@ highlight(req.query_text)

\* the body search_documents passes to es.search
basic_query(query_text, size) ==
    [query |-> multi_match(query_text),
     highlight |-> [fields |-> [content |-> EmptyDict]],
     size |-> size]

(***************************************************************************)
(* The result normalizer of search_documents and advanced_search.          *)
(***************************************************************************)
\* hit.get('highlight', {}).get('content', [])
hit_highlights(hit) ==
    DictGet(DictGet(hit, "highlight", EmptyDict), "content", EmptyList)

\* advanced_result with  hit['_score'] or 0  for the score
advanced_result_zero_score(hit) ==
    LET score == IF hit["_score"] = None THEN Some(0) ELSE hit["_score"]
        doc == DictSet(hit["_source"], "score", score)
    IN  IF hit_highlights(hit) # EmptyList
            THEN DictSet(doc, "highlights", hit_highlights(hit))
            ELSE doc

\* one turn of the loop of advanced_search over the hits
advanced_result(hit) ==
    LET doc == DictSet(hit["_source"], "score", hit["_score"])
    IN  IF hit_highlights(hit) # EmptyList
            THEN DictSet(doc, "highlights", hit_highlights(hit))
            ELSE doc

\* one turn of the loop of search_documents over the hits
basic_result(hit) ==
    DictSet(DictSet(hit["_source"], "score", hit["_score"]),
            "highlights", hit_highlights(hit))

\* advanced_results with each result inserted at the front of the list
advanced_results_reversed(hits) ==
    [i \in 1..Len(hits) |-> advanced_result(hits[Len(hits) + 1 - i])]

advanced_results(hits) == [i \in 1..Len(hits) |-> advanced_result(hits[i])]

basic_results(hits) == [i \in 1..Len(hits) |-> basic_result(hits[i])]

(***************************************************************************)
(* The query layer.  Each operator gives what one call does: the engine    *)
(* calls it makes, the bodies it sends, the list it returns and whether it *)
(* raises.  Both functions wrap their whole body in try/except Exception   *)
(* and return [] from the handler.                                         *)
(***************************************************************************)
Outcome(cs, bodies, res) ==
    [calls |-> cs, sent |-> bodies, results |-> res, raised |-> FALSE]

\* advanced_search without the check that the index exists
advanced_search_call_unchecked(req) ==
    IF fault = "exists" THEN Outcome(<<"exists">>, EmptyList, EmptyList)
    ELSE IF fault = "search"
        THEN Outcome(<<"exists", "search">>, <<advanced_query(req)>>, EmptyList)
    ELSE Outcome(<<"exists", "search">>, <<advanced_query(req)>>,
                 advanced_results(response))

\* advanced_search that sends the body a second time when es.search fails
advanced_search_call_retrying(req) ==
    IF fault = "exists" THEN Outcome(<<"exists">>, EmptyList, EmptyList)
    ELSE IF ~indexExists THEN Outcome(<<"exists">>, EmptyList, EmptyList)
    ELSE IF fault = "search"
        THEN Outcome(<<"exists", "search", "search">>,
                     <<advanced_query(req), advanced_query(req)>>, EmptyList)
    ELSE Outcome(<<"exists", "search">>, <<advanced_query(req)>>,
                 advanced_results(response))

advanced_search_call(req) ==
    IF fault = "exists" THEN Outcome(<<"exists">>, EmptyList, EmptyList)
    ELSE IF ~indexExists THEN Outcome(<<"exists">>, EmptyList, EmptyList)
    ELSE IF fault = "search"
        THEN Outcome(<<"exists", "search">>, <<advanced_query(req)>>, EmptyList)
    ELSE Outcome(<<"exists", "search">>, <<advanced_query(req)>>,
                 advanced_results(response))

search_documents_call(query_text, size) ==
    IF fault = "exists" THEN Outcome(<<"exists">>, EmptyList, EmptyList)
    ELSE IF ~indexExists THEN Outcome(<<"exists">>, EmptyList, EmptyList)
    ELSE IF fault = "search"
        THEN Outcome(<<"exists", "search">>, <<basic_query(query_text, size)>>,
                     EmptyList)
    ELSE Outcome(<<"exists", "search">>, <<basic_query(query_text, size)>>,
                 basic_results(response))

(***************************************************************************)
(* The command layer (main.py).  A command that returns lets the process   *)
(* end with exit code 0; its except handler calls sys.exit(1).             *)
(***************************************************************************)
\* f"{doc['score']:.2f}" raises TypeError on a None score
basic_print_raises(res) == \E i \in 1..Len(res) : res[i].score = None

search_documents_exit(out) ==
    IF out.raised THEN 1
    ELSE IF out.results = EmptyList THEN 0
    ELSE IF basic_print_raises(out.results) THEN 1
    ELSE 0

\* the score is printed as "N/A" when it is None
advanced_search_exit(out) == IF out.raised THEN 1 ELSE 0

(***************************************************************************)
(* The extractor (file_processors.py).  A file of the input directory is   *)
(* [file_path, file_name, ext, text, size]: ext is what os.path.splitext   *)
(* gives, text is what the format's library reads (None when it raises)    *)
(* and size is what os.path.getsize gives (None when it raises).           *)
(***************************************************************************)
File(path, name, ext, text, size) ==
    [file_path |-> path, file_name |-> name, ext |-> ext, text |-> text,
     size |-> size]

\* the files of the model, in the order os.walk meets them
Walk ==
    << File("/data/b.csv", "b.csv", ".csv", Some("data bar"), Some(500)),
       File("/data/notes.txt", "notes.txt", ".txt", Some("note"), Some(10)),
       File("/data/a.pdf", "a.pdf", ".pdf", Some("data foo"), Some(2000)),
       File("/data/blank.docx", "blank.docx", ".docx", Some(""), Some(40)),
       File("/data/old.doc", "old.doc", ".doc", None, Some(100)),
       File("/data/broken.xlsx", "broken.xlsx", ".xlsx", None, Some(70)),
       File("/data/sub/C.PDF", "C.PDF", ".PDF", Some("baz"), Some(3000)),
       File("/data/gone.xls", "gone.xls", ".xls", Some("cell"), None) >>

Files == {Walk[i] : i \in 1..Len(Walk)}

\* str.lower() on the extensions of Files
lower(ext) == IF ext = ".PDF" THEN ".pdf" ELSE ext

\* file_ext[1:] on the extensions process_file accepts
strip_dot(ext) ==
    CASE ext = ".docx" -> "docx" [] ext = ".doc" -> "doc"
      [] ext = ".xlsx" -> "xlsx" [] ext = ".xls" -> "xls"
      [] ext = ".pdf" -> "pdf"   [] ext = ".csv" -> "csv"

\* extract_text_from_*: the library's text, "" when the library raises
extract_text(file) == IF file.text = None THEN "" ELSE file.text[1]

DocContent ==
    "Texto de arquivo DOC - considere usar antiword para extração completa"

\* process_file without the check of the extracted content
process_file_keep_empty(file) ==
    LET file_ext == lower(file.ext)
        content == IF file_ext \in {".docx", ".xlsx", ".xls", ".pdf", ".csv"}
                       THEN extract_text(file)
                       ELSE DocContent
    IN  IF file_ext \notin {".docx", ".xlsx", ".xls", ".pdf", ".csv", ".doc"}
            THEN None
        ELSE IF file.size = None THEN None
        ELSE Some([file_name |-> file.file_name,
                   file_path |-> file.file_path,
                   file_type |-> strip_dot(file_ext),
                   content |-> content,
                   file_size |-> file.size[1]])

process_file(file) ==
    LET file_ext == lower(file.ext)
        content == IF file_ext \in {".docx", ".xlsx", ".xls", ".pdf", ".csv"}
                       THEN extract_text(file)
                       ELSE DocContent
    IN  IF file_ext \notin {".docx", ".xlsx", ".xls", ".pdf", ".csv", ".doc"}
            THEN None
        ELSE IF content = "" THEN None
        ELSE IF file.size = None THEN None
        ELSE Some([file_name |-> file.file_name,
                   file_path |-> file.file_path,
                   file_type |-> strip_dot(file_ext),
                   content |-> content,
                   file_size |-> file.size[1]])

NoDocuments == <<0, EmptyList>>

(***************************************************************************)
(* The input directory: whether it exists and its files in walk order.     *)
(***************************************************************************)
NoDirectory == [exists |-> FALSE, files |-> EmptyList]

\* process_directory with a walk that stops at the first file that gives
\* no document
process_directory_aborting(dir) ==
    IF ~dir.exists THEN EmptyList
    ELSE LET bad == {i \in 1..Len(dir.files) : process_file(dir.files[i]) = None}
             n == IF bad = {} THEN Len(dir.files)
                  ELSE (CHOOSE i \in bad : \A j \in bad : i <= j) - 1
         IN  [i \in 1..n |-> process_file(dir.files[i])[1]]

process_directory(dir) ==
    IF ~dir.exists THEN EmptyList
    ELSE LET produced(f) == process_file(f) # None
             kept == SelectSeq(dir.files, produced)
         IN  [i \in 1..Len(kept) |-> process_file(kept[i])[1]]

(***************************************************************************)
(* The engine's side of a write.  An item with an _id replaces the stored  *)
(* document of that id; an item without one is stored under an id the      *)
(* engine generates.  store is [docs, autoIds].                            *)
(***************************************************************************)
AutoId(n) == "auto-" \o ToString(n)

engine_index(store, item) ==
    IF "_id" \in DOMAIN item
        THEN [docs |-> {d \in store.docs : d.id # item["_id"]}
                         \cup {[id |-> item["_id"], source |-> item["_source"]]},
              autoIds |-> store.autoIds]
        ELSE [docs |-> store.docs
                         \cup {[id |-> AutoId(store.autoIds + 1),
                                source |-> item["_source"]]},
              autoIds |-> store.autoIds + 1]

RECURSIVE engine_write(_, _)
engine_write(store, items) ==
    IF items = EmptyList THEN store
    ELSE engine_write(engine_index(store, Head(items)), Tail(items))

(***************************************************************************)
(* The engine's side of es.search: the documents a body selects, the order *)
(* it gives them and the hits it answers with.                             *)
(***************************************************************************)
\* multi_match of the text on content and file_name, for the texts and the
\* files of the model
es_text_match(text, source) ==
    text = "data" /\ source.content \in {"data bar", "data foo"}

\* term is equality on the keyword field, range compares the number
es_clause_match(clause, source) ==
    IF "match_all" \in DOMAIN clause THEN TRUE
    ELSE IF "multi_match" \in DOMAIN clause
        THEN es_text_match(clause.multi_match.query, source)
    ELSE IF "term" \in DOMAIN clause
        THEN source.file_type = clause.term.file_type
    ELSE LET r == clause.range.file_size
         IN  /\ "gte" \in DOMAIN r => source.file_size >= r.gte
             /\ "lte" \in DOMAIN r => source.file_size <= r.lte
             /\ "gt" \in DOMAIN r => source.file_size > r.gt
             /\ "lt" \in DOMAIN r => source.file_size < r.lt

\* a bool query selects the documents all its must and filter clauses select
es_query_match(query, source) ==
    IF "bool" \in DOMAIN query
        THEN /\ \A i \in 1..Len(DictGet(query.bool, "must", EmptyList)) :
                   es_clause_match(query.bool.must[i], source)
             /\ \A i \in 1..Len(DictGet(query.bool, "filter", EmptyList)) :
                   es_clause_match(query.bool.filter[i], source)
        ELSE es_clause_match(query, source)

\* the field the hits are ordered by: the score when the body has no sort
es_sort_field(body) ==
    IF "sort" \in DOMAIN body
        THEN CHOOSE f \in DOMAIN body.sort[1] : TRUE
        ELSE "_score"

es_sort_order(body) ==
    IF "sort" \in DOMAIN body
        THEN body.sort[1][es_sort_field(body)].order
        ELSE "desc"

\* the score is computed only when the hits are ordered by it: 0 for a
\* query of filters alone, 1 standing for the relevance of the others
es_score(body) ==
    IF es_sort_field(body) # "_score" THEN None
    ELSE IF "bool" \in DOMAIN body.query /\ "must" \notin DOMAIN body.query.bool
        THEN Some(0)
    ELSE Some(1)

es_highlight(body, source) ==
    IF /\ "highlight" \in DOMAIN body
       /\ source.content \in {"data bar", "data foo"}
        THEN [highlight |-> [content |-> <<"<em>data</em>">>]]
        ELSE EmptyDict

es_hit(body, source) ==
    ("_source" :> source) @@ ("_score" :> es_score(body))
        @@ es_highlight(body, source)

\* the documents of docs that may come first: the ones with the least or
\* the greatest file_size under a sort on file_size, any of them otherwise
\* (equal scores, and the order of strings is not modelled)
es_first(docs, body) ==
    IF es_sort_field(body) # "file_size" THEN docs
    ELSE IF es_sort_order(body) = "asc"
        THEN {d \in docs : \A e \in docs : d.source.file_size <= e.source.file_size}
    ELSE {d \in docs : \A e \in docs : d.source.file_size >= e.source.file_size}

\* the hit lists of at most n hits the engine may give for docs; copies of
\* one source give the same hit, so one of them is taken
RECURSIVE es_hits(_, _, _)
es_hits(docs, body, n) ==
    IF n = 0 \/ docs = {} THEN {EmptyList}
    ELSE UNION { LET d == CHOOSE d \in es_first(docs, body) : d.source = src
                 IN  { <<es_hit(body, src)>> \o rest :
                         rest \in es_hits(docs \ {d}, body, n - 1) } :
                 src \in {d.source : d \in es_first(docs, body)} }

es_search(docs, body) ==
    es_hits({d \in docs : es_query_match(body.query, d.source)}, body, body.size)

(***************************************************************************)
(* The ingestor (elasticsearch_utils.py).                                  *)
(***************************************************************************)
\* the body ensure_index_exists passes to es.indices.create
index_mapping ==
    [mappings |-> [properties |->
        [file_name |-> [type |-> "text",
                        fields |-> [keyword |-> [type |-> "keyword",
                                                 ignore_above |-> 256]]],
         file_path |-> [type |-> "text",
                        fields |-> [keyword |-> [type |-> "keyword",
                                                 ignore_above |-> 512]]],
         file_type |-> [type |-> "keyword"],
         file_size |-> [type |-> "long"],
         content |-> [type |-> "text"]]]]

\* the mapping the engine derives when a write creates the index
DynamicMapping == [mappings |-> [dynamic |-> TRUE]]

\* es.indices.create without ignore=400: the rejection of a create on an
\* index that exists is raised
indices_create_strict(flt) ==
    IF flt = "create" THEN [status |-> 503, raised |-> TRUE]
    ELSE IF indexExists THEN [status |-> 400, raised |-> TRUE]
    ELSE [status |-> 200, raised |-> FALSE]

\* es.indices.create(..., ignore=400): the engine rejects the create of an
\* index that exists with status 400, which the client does not raise
indices_create(flt) ==
    IF flt = "create" THEN [status |-> 503, raised |-> TRUE]
    ELSE IF indexExists THEN [status |-> 400, raised |-> FALSE]
    ELSE [status |-> 200, raised |-> FALSE]

\* ensure_index_exists with a handler that logs the failure and returns
ensure_index_exists_call_absorbing(flt) ==
    IF flt = "exists"
        THEN [calls |-> <<"exists">>, raised |-> FALSE, exists |-> indexExists,
              mapping |-> indexMapping]
    ELSE IF indexExists
        THEN [calls |-> <<"exists">>, raised |-> FALSE, exists |-> TRUE,
              mapping |-> indexMapping]
    ELSE IF flt = "create"
        THEN [calls |-> <<"exists", "create">>, raised |-> FALSE, exists |-> FALSE,
              mapping |-> indexMapping]
    ELSE [calls |-> <<"exists", "create">>, raised |-> FALSE, exists |-> TRUE,
          mapping |-> Some(index_mapping)]

\* what one call of ensure_index_exists does
ensure_index_exists_call(flt) ==
    IF flt = "exists"
        THEN [calls |-> <<"exists">>, raised |-> TRUE, exists |-> indexExists,
              mapping |-> indexMapping]
    ELSE IF indexExists
        THEN [calls |-> <<"exists">>, raised |-> FALSE, exists |-> TRUE,
              mapping |-> indexMapping]
    ELSE IF flt = "create"
        THEN [calls |-> <<"exists", "create">>, raised |-> TRUE, exists |-> FALSE,
              mapping |-> indexMapping]
    ELSE [calls |-> <<"exists", "create">>, raised |-> FALSE, exists |-> TRUE,
          mapping |-> Some(index_mapping)]

\* the bulk action index_documents builds for a document
bulk_action(doc) == ("_index" :> "document_index") @@ ("_source" :> doc)

\* the item the bulk helper reports for an action the engine rejected: the
\* engine's answer under the operation type, which does not hold the document
bulk_error(action) ==
    [index |-> [status |-> 400, error |-> "mapper_parsing_exception"]
               @@ ("_index" :> action["_index"])]

\* failed_docs, from the items bulk reported
failed_docs(failed) ==
    LET has_doc(item) == "_source" \in DOMAIN item \/ "document" \in DOMAIN item
        kept == SelectSeq(failed, has_doc)
    IN  [i \in 1..Len(kept) |->
            IF "_source" \in DOMAIN kept[i] THEN kept[i]["_source"]
                                            ELSE kept[i]["document"]]

\* index_documents without the call of ensure_index_exists: the bulk write
\* itself makes the engine create a missing index
index_documents_call_unensured(documents, flt, rejected) ==
    LET before == [docs |-> indexDocs, autoIds |-> autoIds]
        actions == [i \in 1..Len(documents) |-> bulk_action(documents[i])]
        accepted(i) == i \notin rejected
        positions == [i \in 1..Len(documents) |-> i]
        stored == [i \in 1..Len(SelectSeq(positions, accepted)) |->
                      actions[SelectSeq(positions, accepted)[i]]]
    IN  IF documents = EmptyList
            THEN [calls |-> EmptyList, writes |-> EmptyList, raised |-> FALSE,
                  exists |-> indexExists, mapping |-> indexMapping,
                  store |-> before, returned |-> <<0, EmptyList>>]
        ELSE IF flt = "bulk"
            THEN [calls |-> <<"bulk">>, writes |-> actions, raised |-> FALSE,
                  exists |-> indexExists, mapping |-> indexMapping,
                  store |-> before, returned |-> <<0, documents>>]
        ELSE [calls |-> <<"bulk">>, writes |-> actions, raised |-> FALSE,
              exists |-> TRUE,
              mapping |-> IF indexExists THEN indexMapping
                                         ELSE Some(DynamicMapping),
              store |-> engine_write(before, stored),
              returned |-> <<Len(stored), EmptyList>>]

\* index_documents that ensures the index before it looks at the list
index_documents_call_ensure_first(documents, flt, rejected) ==
    LET before == [docs |-> indexDocs, autoIds |-> autoIds]
        ensured == ensure_index_exists_call(flt)
        actions == [i \in 1..Len(documents) |-> bulk_action(documents[i])]
        accepted(i) == i \notin rejected
        positions == [i \in 1..Len(documents) |-> i]
        stored == [i \in 1..Len(SelectSeq(positions, accepted)) |->
                      actions[SelectSeq(positions, accepted)[i]]]
    IN  IF ensured.raised
            THEN [calls |-> ensured.calls, writes |-> EmptyList, raised |-> TRUE,
                  exists |-> ensured.exists, mapping |-> ensured.mapping,
                  store |-> before, returned |-> <<0, EmptyList>>]
        ELSE IF documents = EmptyList
            THEN [calls |-> ensured.calls, writes |-> EmptyList, raised |-> FALSE,
                  exists |-> ensured.exists, mapping |-> ensured.mapping,
                  store |-> before, returned |-> <<0, EmptyList>>]
        ELSE IF flt = "bulk"
            THEN [calls |-> ensured.calls \o <<"bulk">>, writes |-> actions,
                  raised |-> FALSE, exists |-> ensured.exists,
                  mapping |-> ensured.mapping,
                  store |-> engine_write(before, stored),
                  returned |-> <<0, documents>>]
        ELSE [calls |-> ensured.calls \o <<"bulk">>, writes |-> actions,
              raised |-> FALSE, exists |-> ensured.exists,
              mapping |-> ensured.mapping,
              store |-> engine_write(before, stored),
              returned |-> <<Len(stored), EmptyList>>]

\* what one call of index_documents does; rejected is the set of positions
\* of the actions the engine does not store: the ones it rejects or, when
\* the bulk call fails, the ones the call had not written
index_documents_call(documents, flt, rejected) ==
    LET before == [docs |-> indexDocs, autoIds |-> autoIds]
        ensured == ensure_index_exists_call(flt)
        actions == [i \in 1..Len(documents) |-> bulk_action(documents[i])]
        accepted(i) == i \notin rejected
        positions == [i \in 1..Len(documents) |-> i]
        stored == [i \in 1..Len(SelectSeq(positions, accepted)) |->
                      actions[SelectSeq(positions, accepted)[i]]]
        refused(i) == i \in rejected
        failed == [i \in 1..Len(SelectSeq(positions, refused)) |->
                      bulk_error(actions[SelectSeq(positions, refused)[i]])]
    IN  IF documents = EmptyList
            THEN [calls |-> EmptyList, writes |-> EmptyList, raised |-> FALSE,
                  exists |-> indexExists, mapping |-> indexMapping,
                  store |-> before, returned |-> <<0, EmptyList>>]
        ELSE IF ensured.raised
            THEN [calls |-> ensured.calls, writes |-> EmptyList, raised |-> TRUE,
                  exists |-> ensured.exists, mapping |-> ensured.mapping,
                  store |-> before, returned |-> <<0, EmptyList>>]
        ELSE IF flt = "bulk"
            THEN [calls |-> ensured.calls \o <<"bulk">>, writes |-> actions,
                  raised |-> FALSE, exists |-> ensured.exists,
                  mapping |-> ensured.mapping,
                  store |-> engine_write(before, stored),
                  returned |-> <<0, documents>>]
        ELSE [calls |-> ensured.calls \o <<"bulk">>, writes |-> actions,
              raised |-> FALSE, exists |-> ensured.exists,
              mapping |-> ensured.mapping,
              store |-> engine_write(before, stored),
              returned |-> <<Len(stored), failed_docs(failed)>>]

(***************************************************************************)
(* The Spark write (spark_utils.py): every row is written under the id     *)
(* es.mapping.id names, its file_path.                                     *)
(***************************************************************************)
spark_item(doc) ==
    ("_index" :> "document_index") @@ ("_id" :> doc.file_path)
        @@ ("_source" :> doc)

\* the ingest command with a failing Spark write that takes the documents of
\* the direct write back out of the index
index_documents_command_call_rollback(flt, rejected, written) ==
    LET documents == process_directory(directory)
        direct == index_documents_call(documents, flt, rejected)
        rows == [i \in 1..Len(documents) |-> spark_item(documents[i])]
        base == [calls |-> EmptyList, writes |-> EmptyList,
                 exists |-> indexExists, mapping |-> indexMapping,
                 store |-> [docs |-> indexDocs, autoIds |-> autoIds],
                 returned |-> NoDocuments, spark |-> "running", exit |-> 1]
    IN  IF flt = "spark_session"
            THEN [base EXCEPT !.spark = "none"]
        ELSE IF documents = EmptyList
            THEN [base EXCEPT !.spark = "stopped", !.exit = 0]
        ELSE IF direct.raised
            THEN [base EXCEPT !.calls = direct.calls, !.exists = direct.exists,
                              !.mapping = direct.mapping]
        ELSE IF flt = "dataframe"
            THEN [base EXCEPT !.calls = direct.calls, !.writes = direct.writes,
                              !.exists = direct.exists,
                              !.mapping = direct.mapping, !.store = direct.store,
                              !.returned = direct.returned]
        ELSE IF flt = "spark_write"
            THEN [base EXCEPT !.calls = direct.calls \o <<"spark_write">>,
                              !.writes = direct.writes \o SubSeq(rows, 1, written),
                              !.exists = direct.exists,
                              !.mapping = direct.mapping,
                              !.returned = direct.returned]
        ELSE [base EXCEPT !.calls = direct.calls \o <<"spark_write">>,
                          !.writes = direct.writes \o rows,
                          !.exists = direct.exists,
                          !.mapping = direct.mapping,
                          !.store = engine_write(direct.store, rows),
                          !.returned = direct.returned,
                          !.spark = "stopped", !.exit = 0]

(***************************************************************************)
(* The ingest command (main.py).  flt is the call that fails; written is   *)
(* the number of rows a failing Spark write has stored before it fails.    *)
(***************************************************************************)
index_documents_command_call(flt, rejected, written) ==
    LET documents == process_directory(directory)
        direct == index_documents_call(documents, flt, rejected)
        rows == [i \in 1..Len(documents) |-> spark_item(documents[i])]
        base == [calls |-> EmptyList, writes |-> EmptyList,
                 exists |-> indexExists, mapping |-> indexMapping,
                 store |-> [docs |-> indexDocs, autoIds |-> autoIds],
                 returned |-> NoDocuments, spark |-> "running", exit |-> 1]
    IN  IF flt = "spark_session"
            THEN [base EXCEPT !.spark = "none"]
        ELSE IF documents = EmptyList
            THEN [base EXCEPT !.spark = "stopped", !.exit = 0]
        ELSE IF direct.raised
            THEN [base EXCEPT !.calls = direct.calls, !.exists = direct.exists,
                              !.mapping = direct.mapping]
        ELSE IF flt = "dataframe"
            THEN [base EXCEPT !.calls = direct.calls, !.writes = direct.writes,
                              !.exists = direct.exists,
                              !.mapping = direct.mapping, !.store = direct.store,
                              !.returned = direct.returned]
        ELSE IF flt = "spark_write"
            THEN [base EXCEPT !.calls = direct.calls \o <<"spark_write">>,
                              !.writes = direct.writes \o SubSeq(rows, 1, written),
                              !.exists = direct.exists,
                              !.mapping = direct.mapping,
                              !.store = engine_write(direct.store,
                                                     SubSeq(rows, 1, written)),
                              !.returned = direct.returned]
        ELSE [base EXCEPT !.calls = direct.calls \o <<"spark_write">>,
                          !.writes = direct.writes \o rows,
                          !.exists = direct.exists,
                          !.mapping = direct.mapping,
                          !.store = engine_write(direct.store, rows),
                          !.returned = direct.returned,
                          !.spark = "stopped", !.exit = 0]

(***************************************************************************)
(* The inputs of the search operations.                                    *)
(***************************************************************************)
\* size: int = 10
DefaultSize == 10

SearchRequests ==
    [query_text : {None, Some(""), Some("data")},
     file_type : {None, Some(""), Some("pdf")},
     min_size : {None, Some(0), Some(1000)},
     max_size : {None, Some(0), Some(3000)},
     sort_by : {"score", "file_size", "file_name"},
     sort_order : {"asc", "desc"},
     size : {1, DefaultSize}]

\* the documents the index holds when a search runs
StoredDocs == {process_file(f)[1] : f \in {g \in Files : process_file(g) # None}}

HitHighlight ==
    { EmptyDict,
      [highlight |-> EmptyDict],
      [highlight |-> [content |-> EmptyList]],
      [highlight |-> [content |-> <<"foo">>]],
      [highlight |-> [content |-> <<"foo", "bar">>]] }

\* the raw hits: _source, _score (null or a number), optionally highlight
Hits ==
    { ("_source" :> d) @@ ("_score" :> s) @@ h :
        d \in StoredDocs, s \in {None, Some(1)}, h \in HitHighlight }

\* hit lists of at most MaxHits hits, each stored document at most once
Responses ==
    UNION { { r \in [1..n -> Hits] :
                \A i, j \in 1..n : i # j => r[i]["_source"] # r[j]["_source"] } :
            n \in 0..MaxHits }

\* requests and responses that stand for the others where the two do not interact
SampleRequests ==
    { r \in SearchRequests :
        /\ r.query_text = Some("data") /\ r.file_type = None
        /\ r.min_size = None /\ r.max_size = None
        /\ r.sort_order = "desc" /\ r.size = DefaultSize }

SampleResponses ==
    { r \in Responses :
        \A i \in 1..Len(r) : /\ i = 1
                             /\ r[i]["_source"].file_path = "/data/a.pdf"
                             /\ r[i]["_score"] = Some(1)
                             /\ hit_highlights(r[i]) = <<"foo">> }

Init ==
    /\ indexExists \in BOOLEAN
    /\ fault \in {"none", "exists", "search"}
    /\ \/ request \in SearchRequests /\ response \in SampleResponses
       \/ request \in SampleRequests /\ response \in Responses
    /\ Len(response) <= request.size
    /\ (~indexExists \/ fault # "none") => response = EmptyList
    /\ ~indexExists => fault # "search"
    /\ indexMapping = IF indexExists THEN Some(index_mapping) ELSE None
    /\ indexDocs = IF indexExists
                      THEN {[id |-> d.file_path, source |-> d] : d \in StoredDocs}
                      ELSE {}
    /\ autoIds = 0
    /\ directory = NoDirectory
    /\ writes = EmptyList
    /\ pc = "ready"
    /\ op = "none"
    /\ calls = EmptyList
    /\ sent = EmptyList
    /\ results = EmptyList
    /\ raised = FALSE
    /\ exitCode = 0
    /\ spark = "none"
    /\ indexed = NoDocuments
    /\ processed = EmptyList
    /\ bulkFailed = {}
    /\ runs = 0
    /\ ensuring = <<>>

Returned(name, out, code) ==
    /\ pc' = "done"
    /\ op' = name
    /\ calls' = out.calls
    /\ sent' = out.sent
    /\ results' = out.results
    /\ raised' = out.raised
    /\ exitCode' = code
    /\ UNCHANGED <<indexExists, indexMapping, indexDocs, autoIds, directory,
                   request, response, fault, writes, spark, indexed, processed,
                   bulkFailed, runs, ensuring>>

advanced_search ==
    /\ pc = "ready"
    /\ Returned("advanced_search", advanced_search_call(request), exitCode)

\* query_text is a str here: the command line requires it
search_documents ==
    /\ pc = "ready"
    /\ request.query_text # None
    /\ Returned("search_documents",
                search_documents_call(request.query_text[1], request.size),
                exitCode)

advanced_search_command ==
    /\ pc = "ready"
    /\ LET out == advanced_search_call(request)
       IN  Returned("advanced_search_command", out, advanced_search_exit(out))

search_documents_command ==
    /\ pc = "ready"
    /\ request.query_text # None
    /\ LET out == search_documents_call(request.query_text[1], request.size)
       IN  Returned("search_documents_command", out, search_documents_exit(out))

Next ==
    \/ advanced_search
    \/ search_documents
    \/ advanced_search_command
    \/ search_documents_command

Spec == Init /\ [][Next]_vars

(***************************************************************************)
(* Ingestion: the ingest command, or index_documents alone as              *)
(* simple_test.py calls it, run up to MaxRuns times over one directory.    *)
(***************************************************************************)
\* the first n files of the walk that are in the set fs
RECURSIVE Subwalk(_, _)
Subwalk(n, fs) ==
    IF n = 0 THEN EmptyList
    ELSE IF Walk[n] \in fs THEN Append(Subwalk(n - 1, fs), Walk[n])
    ELSE Subwalk(n - 1, fs)

Directories ==
    {NoDirectory}
    \cup {[exists |-> TRUE, files |-> Subwalk(Len(Walk), fs)] :
            fs \in {g \in SUBSET Files : Cardinality(g) <= MaxFiles}}

IngestFaults ==
    {"none", "spark_session", "exists", "create", "bulk", "dataframe",
     "spark_write"}

InitIngest ==
    /\ indexExists = FALSE
    /\ indexMapping = None
    /\ indexDocs = {}
    /\ autoIds = 0
    /\ directory \in Directories
    /\ request \in {r \in SampleRequests : r.sort_by = "score"}
    /\ response = EmptyList
    /\ fault = "none"
    /\ pc = "ready"
    /\ op = "none"
    /\ calls = EmptyList
    /\ sent = EmptyList
    /\ writes = EmptyList
    /\ results = EmptyList
    /\ raised = FALSE
    /\ exitCode = 0
    /\ spark = "none"
    /\ indexed = NoDocuments
    /\ processed = EmptyList
    /\ bulkFailed = {}
    /\ runs = 0
    /\ ensuring = <<>>

index_documents ==
    /\ runs < MaxRuns
    /\ \E flt \in {"none", "exists", "create", "bulk"},
          rejected \in SUBSET (1..Len(process_directory(directory))) :
         LET out == index_documents_call(process_directory(directory), flt,
                                         rejected)
         IN  /\ fault' = flt
             /\ op' = "index_documents"
             /\ calls' = out.calls
             /\ writes' = out.writes
             /\ raised' = out.raised
             /\ indexExists' = out.exists
             /\ indexMapping' = out.mapping
             /\ indexDocs' = out.store.docs
             /\ processed' = process_directory(directory)
             /\ bulkFailed' = IF ~out.raised THEN rejected ELSE {}
             /\ autoIds' = out.store.autoIds
             /\ indexed' = out.returned
             /\ exitCode' = 0
             /\ spark' = "none"
    /\ runs' = runs + 1
    /\ UNCHANGED <<directory, request, response, pc, sent, results, ensuring>>

index_documents_command ==
    /\ runs < MaxRuns
    /\ \E flt \in IngestFaults,
          rejected \in SUBSET (1..Len(process_directory(directory))),
          written \in 0..Len(process_directory(directory)) :
         /\ (flt \in {"spark_session", "exists", "create"})
               => rejected = {}
         /\ IF flt = "spark_write"
               THEN written < Len(process_directory(directory))
               ELSE written = 0
         /\ LET out == index_documents_command_call(flt, rejected, written)
            IN  /\ fault' = flt
                /\ op' = "index_documents_command"
                /\ calls' = out.calls
                /\ writes' = out.writes
                /\ raised' = FALSE
                /\ indexExists' = out.exists
                /\ indexMapping' = out.mapping
                /\ indexDocs' = out.store.docs
                /\ processed' = IF flt = "spark_session"
                                    THEN EmptyList
                                    ELSE process_directory(directory)
                /\ bulkFailed' = rejected
                /\ autoIds' = out.store.autoIds
                /\ indexed' = out.returned
                /\ exitCode' = out.exit
                /\ spark' = out.spark
    /\ runs' = runs + 1
    /\ UNCHANGED <<directory, request, response, pc, sent, results, ensuring>>

NextIngest ==
    \/ index_documents
    \/ index_documents_command

SpecIngest == InitIngest /\ [][NextIngest]_vars

(***************************************************************************)
(* The advanced search on an index of documents: the response is one of    *)
(* the engine's answers to the body the request gives.                     *)
(***************************************************************************)
EngineRequests ==
    [query_text : {None, Some("")},
     file_type : {None, Some(""), Some("pdf"), Some("csv")},
     min_size : {None, Some(0), Some(1000), Some(3000)},
     max_size : {None, Some(0), Some(3000)},
     sort_by : {"score", "file_size"},
     sort_order : {"asc", "desc"},
     size : {1, DefaultSize}]

\* an index of at most MaxHits documents, each under its file_path
Indexes ==
    { {[id |-> d.file_path, source |-> d] : d \in ds} :
        ds \in {g \in SUBSET StoredDocs : Cardinality(g) <= MaxHits} }

InitEngine ==
    /\ indexExists = TRUE
    /\ indexMapping = Some(index_mapping)
    /\ indexDocs \in Indexes
    /\ autoIds = 0
    /\ directory = NoDirectory
    /\ request \in EngineRequests
    /\ fault = "none"
    /\ response \in es_search(indexDocs, advanced_query(request))
    /\ writes = EmptyList
    /\ pc = "ready"
    /\ op = "none"
    /\ calls = EmptyList
    /\ sent = EmptyList
    /\ results = EmptyList
    /\ raised = FALSE
    /\ exitCode = 0
    /\ spark = "none"
    /\ indexed = NoDocuments
    /\ processed = EmptyList
    /\ bulkFailed = {}
    /\ runs = 0
    /\ ensuring = <<>>

NextEngine ==
    \/ advanced_search
    \/ advanced_search_command

SpecEngine == InitEngine /\ [][NextEngine]_vars

(***************************************************************************)
(* Ingest and search on one engine: a search runs on the index the ingest  *)
(* operations before it left, and the engine answers its body.             *)
(***************************************************************************)
\* the hits of a sort on the score come in any order: one hit of them is
\* asked for; a sort on file_size asks for the default number
FrameRequests ==
    { r \in SearchRequests :
        /\ r.query_text \in {None, Some("data")}
        /\ r.file_type = None /\ r.min_size = None /\ r.max_size = None
        /\ r.sort_order = "desc"
        /\ \/ r.sort_by = "score" /\ r.size = 1
           \/ r.sort_by = "file_size" /\ r.size = DefaultSize }

\* advanced_search that creates the index it does not find
advanced_search_creating ==
    /\ pc = "ready"
    /\ \E req \in FrameRequests, flt \in {"none", "exists", "search"} :
         /\ request' = req
         /\ fault' = flt
         /\ indexExists' = (indexExists \/ flt # "exists")
         /\ indexMapping' = IF indexExists' /\ ~indexExists
                               THEN Some(index_mapping) ELSE indexMapping
         /\ UNCHANGED <<indexDocs, autoIds>>
         /\ response' \in IF indexExists /\ flt = "none"
                             THEN es_search(indexDocs, advanced_query(req))
                             ELSE {EmptyList}
         /\ LET out == advanced_search_call(req)'
            IN  /\ calls' = out.calls
                /\ sent' = out.sent
                /\ results' = out.results
                /\ raised' = out.raised
    /\ pc' = "done"
    /\ op' = "advanced_search"
    /\ UNCHANGED <<directory, writes, exitCode, spark, indexed, processed,
                   bulkFailed, runs, ensuring>>

advanced_search_on_index ==
    /\ pc = "ready"
    /\ \E req \in FrameRequests, flt \in {"none", "exists", "search"} :
         /\ request' = req
         /\ fault' = flt
         /\ UNCHANGED <<indexExists, indexMapping, indexDocs, autoIds>>
         /\ response' \in IF indexExists /\ flt = "none"
                             THEN es_search(indexDocs, advanced_query(req))
                             ELSE {EmptyList}
         /\ LET out == advanced_search_call(req)'
            IN  /\ calls' = out.calls
                /\ sent' = out.sent
                /\ results' = out.results
                /\ raised' = out.raised
    /\ pc' = "done"
    /\ op' = "advanced_search"
    /\ UNCHANGED <<directory, writes, exitCode, spark, indexed, processed,
                   bulkFailed, runs, ensuring>>

\* search_documents has no sort: the engine orders its hits by the score
search_documents_on_index ==
    /\ pc = "ready"
    /\ \E req \in FrameRequests, flt \in {"none", "exists", "search"} :
         /\ req.query_text # None
         /\ req.sort_by = "score"
         /\ request' = req
         /\ fault' = flt
         /\ UNCHANGED <<indexExists, indexMapping, indexDocs, autoIds>>
         /\ response' \in IF indexExists /\ flt = "none"
                             THEN es_search(indexDocs,
                                            basic_query(req.query_text[1], req.size))
                             ELSE {EmptyList}
         /\ LET out == search_documents_call(req.query_text[1], req.size)'
            IN  /\ calls' = out.calls
                /\ sent' = out.sent
                /\ results' = out.results
                /\ raised' = out.raised
    /\ pc' = "done"
    /\ op' = "search_documents"
    /\ UNCHANGED <<directory, writes, exitCode, spark, indexed, processed,
                   bulkFailed, runs, ensuring>>

NextFrame ==
    \/ pc = "ready" /\ index_documents
    \/ advanced_search_on_index
    \/ search_documents_on_index

SpecFrame == InitIngest /\ [][NextFrame]_vars

(***************************************************************************)
(* A search beside another process that deletes the index.  The search is  *)
(* two steps, the existence check and the call of es.search, and the       *)
(* deletion may come before, between or after them.  pc is "checked"       *)
(* between the two steps.                                                  *)
(***************************************************************************)
InitSearchRace ==
    /\ indexExists = TRUE
    /\ indexMapping = Some(index_mapping)
    /\ indexDocs \in Indexes
    /\ autoIds = 0
    /\ directory = NoDirectory
    /\ request \in FrameRequests
    /\ fault = "none"
    /\ response = EmptyList
    /\ writes = EmptyList
    /\ pc = "ready"
    /\ op = "none"
    /\ calls = EmptyList
    /\ sent = EmptyList
    /\ results = EmptyList
    /\ raised = FALSE
    /\ exitCode = 0
    /\ spark = "none"
    /\ indexed = NoDocuments
    /\ processed = EmptyList
    /\ bulkFailed = {}
    /\ runs = 0
    /\ ensuring = <<>>

\* es.indices.exists of a search: [] at once when it raises or answers no
search_check(name) ==
    /\ pc = "ready"
    /\ \E flt \in {"none", "exists"} :
         /\ fault' = flt
         /\ pc' = IF flt = "none" /\ indexExists THEN "checked" ELSE "done"
    /\ op' = name
    /\ calls' = <<"exists">>
    /\ sent' = EmptyList
    /\ results' = EmptyList
    /\ raised' = FALSE
    /\ UNCHANGED <<indexExists, indexMapping, indexDocs, autoIds, directory,
                   request, response, writes, exitCode, spark, indexed,
                   processed, bulkFailed, runs, ensuring>>

advanced_search_check ==
    /\ request \in FrameRequests
    /\ search_check("advanced_search")

search_documents_check ==
    /\ request.query_text # None
    /\ request.sort_by = "score"
    /\ search_check("search_documents")

\* es.search on an index that is gone raises NotFoundError, which the
\* handler of the search turns into [] like any other exception
advanced_search_send_raising ==
    /\ pc = "checked" /\ op = "advanced_search"
    /\ \E flt \in {"none", "search"} :
         /\ ~indexExists => flt = "search"
         /\ fault' = flt
         /\ response' \in IF flt = "none"
                             THEN es_search(indexDocs, advanced_query(request))
                             ELSE {EmptyList}
         /\ results' = IF flt = "none" THEN advanced_results(response')
                                       ELSE EmptyList
         /\ raised' = (flt = "search")
    /\ pc' = "done"
    /\ calls' = Append(calls, "search")
    /\ sent' = <<advanced_query(request)>>
    /\ UNCHANGED <<indexExists, indexMapping, indexDocs, autoIds, directory,
                   request, op, writes, exitCode, spark, indexed, processed,
                   bulkFailed, runs, ensuring>>

advanced_search_send ==
    /\ pc = "checked" /\ op = "advanced_search"
    /\ \E flt \in {"none", "search"} :
         /\ ~indexExists => flt = "search"
         /\ fault' = flt
         /\ response' \in IF flt = "none"
                             THEN es_search(indexDocs, advanced_query(request))
                             ELSE {EmptyList}
         /\ results' = IF flt = "none" THEN advanced_results(response')
                                       ELSE EmptyList
    /\ raised' = FALSE
    /\ pc' = "done"
    /\ calls' = Append(calls, "search")
    /\ sent' = <<advanced_query(request)>>
    /\ UNCHANGED <<indexExists, indexMapping, indexDocs, autoIds, directory,
                   request, op, writes, exitCode, spark, indexed, processed,
                   bulkFailed, runs, ensuring>>

search_documents_send ==
    /\ pc = "checked" /\ op = "search_documents"
    /\ \E flt \in {"none", "search"} :
         /\ ~indexExists => flt = "search"
         /\ fault' = flt
         /\ response' \in IF flt = "none"
                             THEN es_search(indexDocs,
                                            basic_query(request.query_text[1],
                                                        request.size))
                             ELSE {EmptyList}
         /\ results' = IF flt = "none" THEN basic_results(response')
                                       ELSE EmptyList
    /\ raised' = FALSE
    /\ pc' = "done"
    /\ calls' = Append(calls, "search")
    /\ sent' = <<basic_query(request.query_text[1], request.size)>>
    /\ UNCHANGED <<indexExists, indexMapping, indexDocs, autoIds, directory,
                   request, op, writes, exitCode, spark, indexed, processed,
                   bulkFailed, runs, ensuring>>

\* another process deletes the index
delete_index ==
    /\ indexExists
    /\ indexExists' = FALSE
    /\ indexMapping' = None
    /\ indexDocs' = {}
    /\ UNCHANGED <<autoIds, directory, request, response, fault, pc, op, calls,
                   sent, writes, results, raised, exitCode, spark, indexed,
                   processed, bulkFailed, runs, ensuring>>

NextSearchRace ==
    \/ advanced_search_check
    \/ advanced_search_send
    \/ search_documents_check
    \/ search_documents_send
    \/ delete_index

SpecSearchRace == InitSearchRace /\ [][NextSearchRace]_vars

(***************************************************************************)
(* Ingestions that run index_documents at once on one engine.  Each is     *)
(* three steps: the existence check, the create when the check answered    *)
(* no, and the bulk write.  ensuring[p].pc is "ready", "absent" after a    *)
(* check that did not find the index, "ensured" when ensure_index_exists   *)
(* has returned, "done" at the end.                                        *)
(***************************************************************************)
Procs == 1..MaxProcs

InitEnsureRace ==
    /\ indexExists \in BOOLEAN
    /\ indexMapping = IF indexExists THEN Some(index_mapping) ELSE None
    /\ indexDocs \in IF indexExists THEN Indexes ELSE {{}}
    /\ autoIds = 0
    /\ directory \in {d \in Directories : process_directory(d) # EmptyList}
    /\ processed = process_directory(directory)
    /\ request \in {r \in SampleRequests : r.sort_by = "score"}
    /\ response = EmptyList
    /\ fault = "none"
    /\ pc = "ready"
    /\ op = "index_documents"
    /\ calls = EmptyList
    /\ sent = EmptyList
    /\ writes = EmptyList
    /\ results = EmptyList
    /\ raised = FALSE
    /\ exitCode = 0
    /\ spark = "none"
    /\ indexed = NoDocuments
    /\ bulkFailed = {}
    /\ runs = 0
    /\ ensuring = [p \in Procs |-> [pc |-> "ready", create |-> 0, raised |-> FALSE]]

ensure_check(p) ==
    /\ ensuring[p].pc = "ready"
    /\ \E flt \in {"none", "exists"} :
         /\ fault' = flt
         /\ ensuring' = [ensuring EXCEPT
                           ![p].pc = IF flt = "exists" THEN "done"
                                     ELSE IF indexExists THEN "ensured"
                                     ELSE "absent",
                           ![p].raised = (flt = "exists")]
    /\ calls' = Append(calls, "exists")
    /\ UNCHANGED <<indexExists, indexMapping, indexDocs, autoIds, directory,
                   request, response, pc, op, sent, writes, results, raised,
                   exitCode, spark, indexed, processed, bulkFailed, runs>>

ensure_create(p) ==
    /\ ensuring[p].pc = "absent"
    /\ \E flt \in {"none", "create"} :
         LET answer == indices_create(flt)
         IN  /\ fault' = flt
             /\ ensuring' = [ensuring EXCEPT
                               ![p].pc = IF answer.raised THEN "done"
                                                          ELSE "ensured",
                               ![p].create = answer.status,
                               ![p].raised = answer.raised]
             /\ indexExists' = (indexExists \/ answer.status = 200)
             /\ indexMapping' = IF answer.status = 200
                                   THEN Some(index_mapping) ELSE indexMapping
    /\ calls' = Append(calls, "create")
    /\ UNCHANGED <<indexDocs, autoIds, directory, request, response, pc, op,
                   sent, writes, results, raised, exitCode, spark, indexed,
                   processed, bulkFailed, runs>>

bulk_write(p) ==
    /\ ensuring[p].pc = "ensured"
    /\ LET actions == [i \in 1..Len(processed) |-> bulk_action(processed[i])]
           store == engine_write([docs |-> indexDocs, autoIds |-> autoIds],
                                 actions)
       IN  /\ writes' = writes \o actions
           /\ indexDocs' = store.docs
           /\ autoIds' = store.autoIds
    /\ ensuring' = [ensuring EXCEPT ![p].pc = "done"]
    /\ calls' = Append(calls, "bulk")
    /\ fault' = "none"
    /\ UNCHANGED <<indexExists, indexMapping, directory, request, response, pc,
                   op, sent, results, raised, exitCode, spark, indexed,
                   processed, bulkFailed, runs>>

NextEnsureRace ==
    \/ \E p \in Procs : ensure_check(p)
    \/ \E p \in Procs : ensure_create(p)
    \/ \E p \in Procs : bulk_write(p)

SpecEnsureRace == InitEnsureRace /\ [][NextEnsureRace]_vars

(***************************************************************************)
(* Properties of the search operations.                                    *)
(***************************************************************************)
AdvancedOps == {"advanced_search", "advanced_search_command"}
BasicOps == {"search_documents", "search_documents_command"}

\* an advanced search ran and passed a body to es.search
AdvancedSent == pc = "done" /\ op \in AdvancedOps /\ Len(sent) = 1

\* a search ran and the engine answered it with the hit list
Answered == pc = "done" /\ op \in AdvancedOps \cup BasicOps /\ indexExists /\ fault = "none"

SizeGiven == request.min_size # None \/ request.max_size # None
FilterGiven == Truthy(request.file_type) \/ SizeGiven

\* the must and filter clauses of a query, in that order
Clauses(q) ==
    IF "bool" \in DOMAIN q
        THEN DictGet(q.bool, "must", EmptyList) \o DictGet(q.bool, "filter", EmptyList)
        ELSE EmptyList

\* C1: an advanced search with no query_text, file_type, min_size or max_size
\* sends a body whose query is exactly {"match_all": {}}, with no bool, must or
\* filter; and it does send one when the index exists and answers.
C1_MatchAll ==
    (pc = "done" /\ op \in AdvancedOps /\ request.query_text = None
        /\ request.file_type = None /\ ~SizeGiven)
    => /\ (indexExists /\ fault # "exists") => Len(sent) = 1
       /\ \A i \in 1..Len(sent) :
            /\ DOMAIN sent[i].query = {"match_all"}
            /\ sent[i].query.match_all = EmptyDict

C1_Witness ==
    /\ AdvancedSent /\ request.query_text = None
    /\ request.file_type = None /\ ~SizeGiven
    /\ sent[1].query = [match_all |-> EmptyDict]

\* C2: with a query text and at least one filter, the query is a bool whose
\* must is the one multi_match clause on the query text and whose filter is
\* the term clause (if file_type is given) followed by the range clause (if a
\* size bound is given): nothing else is in either list.
C2_MustAndFilterApart ==
    (AdvancedSent /\ Truthy(request.query_text) /\ FilterGiven)
    => LET q == sent[1].query
       IN  /\ DOMAIN q = {"bool"}
           /\ DOMAIN q.bool = {"must", "filter"}
           /\ Len(q.bool.must) = 1
           /\ DOMAIN q.bool.must[1] = {"multi_match"}
           /\ q.bool.must[1].multi_match.query = request.query_text[1]
           /\ Len(q.bool.filter) = (IF Truthy(request.file_type) THEN 1 ELSE 0)
                                   + (IF SizeGiven THEN 1 ELSE 0)
           /\ \A i \in 1..Len(q.bool.filter) :
                LET c == q.bool.filter[i]
                IN  IF i = 1 /\ Truthy(request.file_type)
                        THEN c = [term |-> [file_type |-> request.file_type[1]]]
                        ELSE DOMAIN c = {"range"}

C2_Witness ==
    /\ AdvancedSent /\ request.query_text = Some("data")
    /\ request.file_type = Some("pdf") /\ request.min_size = Some(1000)
    /\ Len(sent[1].query.bool.must) = 1 /\ Len(sent[1].query.bool.filter) = 2

\* C3: the body sorts on one field: _score for sort_by = score, file_size for
\* file_size and file_name.keyword, never file_name, for file_name.
C3_SortField ==
    AdvancedSent
    => /\ Len(sent[1].sort) = 1
       /\ DOMAIN sent[1].sort[1] =
            { CASE request.sort_by = "score" -> "_score"
                [] request.sort_by = "file_size" -> "file_size"
                [] request.sort_by = "file_name" -> "file_name.keyword" }
       /\ request.sort_by = "file_name" => "file_name" \notin DOMAIN sent[1].sort[1]

C3_Witness ==
    /\ AdvancedSent /\ request.sort_by = "file_name"
    /\ request.query_text = Some("data") /\ request.file_type = Some("pdf")
    /\ request.min_size = Some(1000)
    /\ "file_name.keyword" \in DOMAIN sent[1].sort[1]

\* C4: among the clauses of the query there is one range clause if min_size
\* or max_size is given and none otherwise; it is a range on file_size alone,
\* with gte = min_size iff min_size is given and lte = max_size iff max_size
\* is given.
C4_RangeClause ==
    AdvancedSent
    => LET cs == Clauses(sent[1].query)
           ranges == {i \in 1..Len(cs) : "range" \in DOMAIN cs[i]}
       IN  /\ Cardinality(ranges) = IF SizeGiven THEN 1 ELSE 0
           /\ \A i \in ranges :
                /\ DOMAIN cs[i] = {"range"}
                /\ DOMAIN cs[i].range = {"file_size"}
                /\ "gte" \in DOMAIN cs[i].range.file_size <=> request.min_size # None
                /\ "lte" \in DOMAIN cs[i].range.file_size <=> request.max_size # None
                /\ request.min_size # None
                     => cs[i].range.file_size.gte = request.min_size[1]
                /\ request.max_size # None
                     => cs[i].range.file_size.lte = request.max_size[1]

C4_Witness ==
    /\ AdvancedSent /\ request.min_size = Some(1000) /\ request.max_size = None
    /\ \E i \in 1..Len(Clauses(sent[1].query)) :
         Clauses(sent[1].query)[i] = [range |-> [file_size |-> [gte |-> 1000]]]

\* the highlight.content list of a hit is present
HasContent(hit) == "highlight" \in DOMAIN hit /\ "content" \in DOMAIN hit.highlight

C6_NoHighlightNoField ==
    Answered
    => \A i \in 1..Len(results) :
         (i <= Len(response) /\ "highlight" \notin DOMAIN response[i])
            => "highlights" \notin DOMAIN results[i]

\* C7: the result list has one result per hit, in the order of the hits: the
\* i-th result carries every field of the i-th hit's _source.
C7_OneResultPerHitInOrder ==
    Answered
    => /\ Len(results) = Len(response)
       /\ \A i \in 1..Len(results) :
            \A k \in DOMAIN response[i]["_source"] :
               /\ k \in DOMAIN results[i]
               /\ results[i][k] = response[i]["_source"][k]

C7_Witness ==
    /\ Answered /\ op = "advanced_search" /\ Len(response) = MaxHits
    /\ Len(results) = MaxHits
    /\ results[1].file_path = "/data/b.csv" /\ results[MaxHits].file_path = "/data/a.pdf"

\* C8: when the index does not exist, a search returns the empty list, does
\* not raise and passes nothing to es.search.
C8_MissingIndexEmpty ==
    (pc = "done" /\ op \in AdvancedOps \cup BasicOps /\ ~indexExists)
    => /\ results = EmptyList
       /\ ~raised
       /\ sent = EmptyList
       /\ \A i \in 1..Len(calls) : calls[i] # "search"

C8_Witness ==
    /\ pc = "done" /\ op = "advanced_search" /\ ~indexExists /\ fault = "none"
    /\ request.query_text = Some("data") /\ request.file_type = Some("pdf")
    /\ results = EmptyList /\ calls = <<"exists">>

\* C9: when the engine cannot be reached during a search command, the query
\* layer raises and the command ends with a non-zero exit code.
C9_UnreachableFailsCommand ==
    (pc = "done"
        /\ op \in {"search_documents_command", "advanced_search_command"}
        /\ fault # "none")
    => raised /\ exitCode # 0

(***************************************************************************)
(* Properties of ingestion.                                                *)
(***************************************************************************)
\* C10: the write items of ingestion carry the file_path of their document
\* as identity key, so that after any sequence of ingest operations the index
\* holds at most one document per file_path.
C10_OneDocumentPerPath ==
    \A d, e \in indexDocs :
        d.source.file_path = e.source.file_path => d = e

IngestOps == {"index_documents", "index_documents_command"}

Called(c) == \E i \in 1..Len(calls) : calls[i] = c

\* an ingest operation ran and the engine answered its bulk write
BulkAnswered == runs > 0 /\ op \in IngestOps /\ Called("bulk") /\ fault # "bulk"

\* C11: when the engine rejects k of the n bulk actions, index_documents
\* does not raise and returns n - k together with a list of exactly the k
\* documents of the rejected actions.
C11_FailedDocumentsReturned ==
    BulkAnswered
    => /\ ~raised
       /\ indexed[1] = Len(processed) - Cardinality(bulkFailed)
       /\ Len(indexed[2]) = Cardinality(bulkFailed)
       /\ \A i \in bulkFailed :
            \E j \in 1..Len(indexed[2]) : indexed[2][j] = processed[i]

\* C12: an ingest operation that issues the bulk write has first checked
\* that the index exists and, if it did not, has created it, in that order;
\* and index_documents that returns for a non-empty list leaves an index
\* that exists, with the explicit mapping if it had to be created.
C12_EnsureBeforeBulk ==
    [][(runs' = runs + 1)
        => /\ (\E b \in 1..Len(calls') : calls'[b] = "bulk")
                => /\ calls'[1] = "exists"
                   /\ ~indexExists => calls'[2] = "create"
                   /\ \A b \in 1..Len(calls') :
                         calls'[b] = "bulk" => b > (IF indexExists THEN 1 ELSE 2)
           /\ (op' = "index_documents" /\ ~raised' /\ processed' # EmptyList)
                => /\ indexExists'
                   /\ indexMapping' # None
                   /\ ~indexExists
                        => LET fields == indexMapping'[1].mappings.properties
                           IN  /\ DOMAIN fields = {"file_name", "file_path",
                                                   "file_type", "file_size",
                                                   "content"}
                               /\ fields.file_name.fields.keyword.type = "keyword"
                               /\ fields.file_type.type = "keyword"]_vars

C12_Witness ==
    /\ runs = 1 /\ op = "index_documents" /\ ~raised
    /\ calls = <<"exists", "create", "bulk">>
    /\ writes # EmptyList /\ indexExists /\ indexMapping = Some(index_mapping)

\* the ingest command has walked the directory
Walked == runs > 0 /\ op = "index_documents_command" /\ fault # "spark_session"

\* a file the extractor cannot turn into a document: its format is not
\* supported, its library raises, or its size cannot be read
Skipped(f) ==
    \/ f.ext \notin {".docx", ".doc", ".xlsx", ".xls", ".pdf", ".PDF", ".csv"}
    \/ f.ext # ".doc" /\ f.text = None
    \/ f.size = None

\* the positions of the files that give a document, in walk order
RECURSIVE Producing(_, _)
Producing(files, n) ==
    IF n = 0 THEN EmptyList
    ELSE IF process_file(files[n]) # None
        THEN Append(Producing(files, n - 1), n)
    ELSE Producing(files, n - 1)

\* C13: the documents the command walked are, in walk order, exactly the
\* records of the files for which process_file gives one; an unsupported or
\* failing file gives no record and takes no other file's record away.
C13_WalkKeepsEveryRecord ==
    Walked
    => LET files == directory.files
           at == Producing(files, Len(files))
       IN  /\ Len(processed) = Len(at)
           /\ \A i \in 1..Len(at) : Some(processed[i]) = process_file(files[at[i]])
           /\ \A i \in 1..Len(files) :
                Skipped(files[i])
                  => \A j \in 1..Len(processed) :
                        processed[j].file_path # files[i].file_path

C13_Witness ==
    /\ Walked
    /\ Len(directory.files) = 2
    /\ Skipped(directory.files[1])
    /\ Len(processed) = 1
    /\ processed[1].file_path = directory.files[2].file_path

FileTypes == {"docx", "doc", "xlsx", "xls", "pdf", "csv"}

\* the file of the directory a record was made from
FileOf(doc) == CHOOSE f \in Files : f.file_path = doc.file_path

\* the file's extension in lower case, without its dot
TypeOfExt(ext) ==
    CASE ext \in {".pdf", ".PDF"} -> "pdf"
      [] ext = ".csv" -> "csv"   [] ext = ".docx" -> "docx"
      [] ext = ".doc" -> "doc"   [] ext = ".xlsx" -> "xlsx"
      [] ext = ".xls" -> "xls"   [] OTHER -> "unsupported"

\* a file whose extraction yields empty text
EmptyText(f) == f.ext # ".doc" /\ f.text \in {None, Some("")}

\* C14: every record has non-empty content and a file_type that is the
\* lower-cased extension of its file without the dot, one of FileTypes; a
\* file whose extraction yields empty text gives no record.
C14_RecordsHaveContentAndType ==
    Walked
    => /\ \A i \in 1..Len(processed) :
            /\ processed[i].content # ""
            /\ processed[i].file_type \in FileTypes
            /\ processed[i].file_type = TypeOfExt(FileOf(processed[i]).ext)
       /\ \A i \in 1..Len(directory.files) :
            EmptyText(directory.files[i])
              => \A j \in 1..Len(processed) :
                    processed[j].file_path # directory.files[i].file_path

C14_Witness ==
    /\ Walked
    /\ \E i \in 1..Len(directory.files) :
          directory.files[i].text = Some("") /\ directory.files[i].ext = ".docx"
    /\ \E j \in 1..Len(processed) :
          FileOf(processed[j]).ext = ".PDF" /\ processed[j].file_type = "pdf"

\* a search operation has returned
Searched == pc = "done" /\ op \in AdvancedOps \cup BasicOps

\* C15, as stated: a search makes exactly one call to the engine.
C15_OneEngineCall == Searched => Len(calls) = 1

\* C15, amended: a search makes one existence check and then, only when the
\* check answers that the index exists, one search call with one body.
C15_OneCheckThenOneSearch ==
    Searched
    => /\ Len(calls) \in {1, 2}
       /\ calls[1] = "exists"
       /\ Len(calls) = 2 <=> (indexExists /\ fault # "exists")
       /\ Len(calls) = 2 => calls[2] = "search"
       /\ Len(sent) = Len(calls) - 1

C15_Witness ==
    /\ Searched /\ op = "search_documents"
    /\ calls = <<"exists", "search">> /\ Len(sent) = 1 /\ results # EmptyList

\* a sort that is a list of one field-to-order mapping with the given order
OneFieldSort(sort, order) ==
    /\ Len(sort) = 1
    /\ Cardinality(DOMAIN sort[1]) = 1
    /\ \A f \in DOMAIN sort[1] : sort[1][f] = [order |-> order]

\* C16, as stated: every body a search sends has a query, a sort of one
\* field-to-order mapping with the requested order, and the requested size.
C16_QuerySortSize ==
    Searched
    => \A i \in 1..Len(sent) :
          /\ "query" \in DOMAIN sent[i]
          /\ "sort" \in DOMAIN sent[i]
          /\ OneFieldSort(sent[i].sort, request.sort_order)
          /\ sent[i].size = request.size

\* C16, amended: every body has a query and the requested size; the body of
\* an advanced search has a sort of one field-to-order mapping with the
\* requested order, the body of a basic search has no sort.
C16_QuerySizeAndAdvancedSort ==
    Searched
    => \A i \in 1..Len(sent) :
          /\ "query" \in DOMAIN sent[i]
          /\ sent[i].size = request.size
          /\ op \in AdvancedOps
                => /\ "sort" \in DOMAIN sent[i]
                   /\ OneFieldSort(sent[i].sort, request.sort_order)
          /\ op \in BasicOps
                => DOMAIN sent[i] = {"query", "highlight", "size"}

C16_Witness ==
    /\ AdvancedSent
    /\ request.size = 1 /\ sent[1].size = 1
    /\ request.sort_order = "asc"
    /\ sent[1].sort = <<[file_size |-> [order |-> "asc"]]>>

\* C20: the body of an advanced search has a highlight on the content field
\* if and only if query_text is present; a filter-only or match-everything
\* body has no highlight key.
C20_HighlightIffQueryText ==
    AdvancedSent
    => /\ "highlight" \in DOMAIN sent[1] <=> Truthy(request.query_text)
       /\ "highlight" \in DOMAIN sent[1]
             => sent[1].highlight = [fields |-> [content |-> EmptyDict]]
       /\ request.query_text = None => "highlight" \notin DOMAIN sent[1]

C20_Witness ==
    /\ AdvancedSent
    /\ request.query_text = None /\ request.file_type = Some("pdf")
    /\ "bool" \in DOMAIN sent[1].query
    /\ "highlight" \notin DOMAIN sent[1]

\* C19: when the direct bulk write of the ingest command indexed at least
\* one document, the index exists and holds at least one document when the
\* command ends, also when the Spark write that follows fails.
C19_DirectWriteStays ==
    (runs > 0 /\ op = "index_documents_command" /\ indexed[1] >= 1)
    => /\ indexExists
       /\ Cardinality(indexDocs) >= 1
       /\ \E d \in indexDocs, i \in 1..Len(processed) : d.source = processed[i]

C19_Witness ==
    /\ runs = 1 /\ op = "index_documents_command"
    /\ fault = "spark_write" /\ exitCode = 1
    /\ indexed[1] >= 1 /\ indexExists /\ Cardinality(indexDocs) = indexed[1]

\* the documents of the index that satisfy every filter the request gives
Satisfying ==
    { d \in indexDocs :
        /\ Truthy(request.file_type) => d.source.file_type = request.file_type[1]
        /\ request.min_size # None => request.min_size[1] <= d.source.file_size
        /\ request.max_size # None => d.source.file_size <= request.max_size[1] }

\* C17: an advanced search with no query text, on an index where the
\* documents satisfying the filters are no more than the limit, returns
\* exactly those documents: file_type equal, min_size <= file_size <= max_size.
C17_FiltersSelectExactly ==
    (pc = "done" /\ op \in AdvancedOps /\ ~Truthy(request.query_text)
        /\ indexExists /\ fault = "none"
        /\ Cardinality(Satisfying) <= request.size)
    => /\ Len(results) = Cardinality(Satisfying)
       /\ \A d \in Satisfying :
             \E i \in 1..Len(results) :
                 /\ results[i].file_path = d.source.file_path
                 /\ results[i].file_size = d.source.file_size
                 /\ results[i].file_type = d.source.file_type
       /\ \A i \in 1..Len(results) :
             \E d \in Satisfying : results[i].file_path = d.source.file_path

C17_Witness ==
    /\ pc = "done" /\ op = "advanced_search"
    /\ request.min_size = Some(1000) /\ request.max_size = Some(3000)
    /\ Cardinality(indexDocs) = 2
    /\ \E d \in indexDocs : d.source.file_size = 500
    /\ Len(results) = 1
    /\ results[1].file_size = 3000

\* C18: a search leaves the index as it was, whether it exists, its mapping
\* and the documents it holds; index_documents with a non-empty list on a
\* missing index creates it.
C18_SearchLeavesIndex ==
    [][/\ (pc = "ready" /\ pc' = "done" /\ op' \in AdvancedOps \cup BasicOps)
            => /\ indexExists' = indexExists
               /\ indexMapping' = indexMapping
               /\ indexDocs' = indexDocs
       /\ (runs' = runs + 1 /\ op' = "index_documents" /\ ~indexExists
             /\ processed' # EmptyList /\ ~raised')
            => indexExists']_vars

C18_Witness ==
    /\ pc = "done" /\ op = "advanced_search" /\ fault = "none"
    /\ runs = 1 /\ processed = EmptyList
    /\ calls = <<"exists">> /\ ~indexExists /\ indexDocs = {}

\* C21: with query_text alone the bool query of an advanced search has a
\* must list of the one text clause and no filter key; with filters alone it
\* has a filter list and no must key.
C21_OnlyMustOrOnlyFilter ==
    AdvancedSent
    => /\ (Truthy(request.query_text) /\ ~FilterGiven)
            => /\ DOMAIN sent[1].query = {"bool"}
               /\ DOMAIN sent[1].query.bool = {"must"}
               /\ Len(sent[1].query.bool.must) = 1
               /\ DOMAIN sent[1].query.bool.must[1] = {"multi_match"}
               /\ sent[1].query.bool.must[1].multi_match.query
                     = request.query_text[1]
       /\ (~Truthy(request.query_text) /\ FilterGiven)
            => /\ DOMAIN sent[1].query = {"bool"}
               /\ DOMAIN sent[1].query.bool = {"filter"}
               /\ Len(sent[1].query.bool.filter) >= 1
               /\ \A i \in 1..Len(sent[1].query.bool.filter) :
                     DOMAIN sent[1].query.bool.filter[i] \subseteq {"term", "range"}

C21_Witness ==
    /\ AdvancedSent
    /\ request.query_text = Some("data") /\ ~FilterGiven
    /\ DOMAIN sent[1].query.bool = {"must"}

\* the request with an empty-string query_text or file_type made absent
Absent(x) == IF x = Some("") THEN None ELSE x
WithoutEmptyStrings(req) ==
    [req EXCEPT !.query_text = Absent(req.query_text),
                !.file_type = Absent(req.file_type)]

\* C22: an empty-string query_text or file_type builds the body an absent
\* one builds, and a min_size or max_size of 0 still gives its gte or lte
\* bound in the range clause.
C22_TruthinessAndNone ==
    AdvancedSent
    => /\ sent[1] = advanced_query(WithoutEmptyStrings(request))
       /\ request.query_text = Some("")
            => /\ "highlight" \notin DOMAIN sent[1]
               /\ \A i \in 1..Len(Clauses(sent[1].query)) :
                     "multi_match" \notin DOMAIN Clauses(sent[1].query)[i]
       /\ request.file_type = Some("")
            => \A i \in 1..Len(Clauses(sent[1].query)) :
                  "term" \notin DOMAIN Clauses(sent[1].query)[i]
       /\ request.min_size = Some(0)
            => \E i \in 1..Len(Clauses(sent[1].query)) :
                  /\ "range" \in DOMAIN Clauses(sent[1].query)[i]
                  /\ "gte" \in DOMAIN Clauses(sent[1].query)[i].range.file_size
                  /\ Clauses(sent[1].query)[i].range.file_size.gte = 0
       /\ request.max_size = Some(0)
            => \E i \in 1..Len(Clauses(sent[1].query)) :
                  /\ "range" \in DOMAIN Clauses(sent[1].query)[i]
                  /\ "lte" \in DOMAIN Clauses(sent[1].query)[i].range.file_size
                  /\ Clauses(sent[1].query)[i].range.file_size.lte = 0

C22_Witness ==
    /\ AdvancedSent
    /\ request.query_text = Some("") /\ request.file_type = Some("")
    /\ request.min_size = Some(0) /\ request.max_size = None
    /\ sent[1].query = [bool |-> [filter |->
                           <<[range |-> [file_size |-> [gte |-> 0]]]>>]]

\* a call of index_documents has just ended
IndexDocumentsStep == runs' = runs + 1 /\ op' = "index_documents"

\* C26: a bulk call that throws makes index_documents return 0 and all its
\* input documents, whatever the call had written, without raising; a
\* failure of the existence check or of the creation raises to the caller,
\* and nothing else does.
C26_BulkFailureAbsorbed ==
    [][(IndexDocumentsStep /\ processed' # EmptyList)
        => /\ fault' = "bulk"
                => /\ ~raised'
                   /\ indexed' = <<0, processed'>>
                   /\ \E b \in 1..Len(calls') : calls'[b] = "bulk"
           /\ (fault' = "exists" \/ (fault' = "create" /\ ~indexExists))
                => /\ raised'
                   /\ \A b \in 1..Len(calls') : calls'[b] # "bulk"
                   /\ indexDocs' = indexDocs
           /\ raised' => fault' \in {"exists", "create"}]_vars

C26_Witness ==
    /\ runs = 1 /\ op = "index_documents" /\ fault = "bulk" /\ ~raised
    /\ Len(processed) = 2 /\ indexed = <<0, processed>>
    /\ Cardinality(indexDocs) = 1

\* C27: index_documents with an empty list returns (0, []) and makes no
\* call to the engine: no check, no creation, no write; the index stays as
\* it was, missing if it was missing.
C27_EmptyListNoEngineCall ==
    [][(IndexDocumentsStep /\ processed' = EmptyList)
        => /\ indexed' = <<0, EmptyList>>
           /\ ~raised'
           /\ calls' = EmptyList
           /\ writes' = EmptyList
           /\ indexExists' = indexExists
           /\ indexMapping' = indexMapping
           /\ indexDocs' = indexDocs]_vars

C27_Witness ==
    /\ runs = 1 /\ op = "index_documents" /\ fault = "exists"
    /\ directory.exists /\ Len(directory.files) = 2 /\ processed = EmptyList
    /\ calls = EmptyList /\ ~raised /\ ~indexExists /\ indexed = <<0, EmptyList>>

\* C25: when the ingest command ends after it has created the Spark
\* session, the session is stopped: on the return without documents, on
\* completion and on every failure.
C25_SparkStoppedOnEveryPath ==
    (runs > 0 /\ op = "index_documents_command" /\ fault # "spark_session")
    => spark = "stopped"

\* C23: a search whose existence check saw the index and whose search call
\* finds it removed returns the empty list and does not raise.
C23_RemovedIndexEmpty ==
    [][(pc = "checked" /\ pc' = "done" /\ ~indexExists)
        => /\ op' \in {"advanced_search", "search_documents"}
           /\ calls' = <<"exists", "search">>
           /\ results' = EmptyList
           /\ ~raised']_vars

C23_Witness ==
    /\ pc = "done" /\ op = "search_documents"
    /\ calls = <<"exists", "search">> /\ Len(sent) = 1
    /\ ~indexExists /\ results = EmptyList /\ ~raised

\* C24: every ingestion that saw the index absent issues a create; a create
\* that finds the index made in between is rejected with status 400, which
\* is not raised and leaves the index and its mapping as the first create
\* made them; an ingestion that saw the index exist issues no create.
C24_CreateRaceIgnored ==
    [][\A p \in Procs :
         /\ (ensuring[p].pc = "ready" /\ ensuring'[p].pc # "ready"
               /\ indexExists /\ fault' = "none")
              => /\ ensuring'[p].pc = "ensured"
                 /\ ensuring'[p].create = 0
                 /\ calls' = Append(calls, "exists")
         /\ (ensuring[p].pc = "absent" /\ ensuring'[p].pc # "absent"
               /\ fault' = "none")
              => /\ calls' = Append(calls, "create")
                 /\ ~ensuring'[p].raised
                 /\ ensuring'[p].pc = "ensured"
                 /\ indexExists'
                 /\ indexMapping' = Some(index_mapping)
                 /\ indexExists
                      => /\ ensuring'[p].create = 400
                         /\ indexMapping' = indexMapping
                         /\ indexDocs' = indexDocs
                 /\ ~indexExists => ensuring'[p].create = 200
         /\ ensuring[p].pc \in {"ensured", "done"}
              => ensuring'[p].create = ensuring[p].create]_vars

C24_Witness ==
    /\ ensuring # <<>>
    /\ \E p, q \in Procs :
          /\ ensuring[p].create = 200 /\ ensuring[q].create = 400
          /\ ~ensuring[p].raised /\ ~ensuring[q].raised
          /\ ensuring[p].pc = "done" /\ ensuring[q].pc = "done"
    /\ indexExists /\ indexMapping = Some(index_mapping)

====
